---- MODULE Spec2Model ----
(***************************************************************************)
(* qoa2wav: tools/ExtractTimToPng/qoa2wav.c                                *)
(*                                                                         *)
(* main -> convert_qoa_to_wav -> write_wav_header, as a state machine.     *)
(* One action per block of statements between two branch points.           *)
(*                                                                         *)
(* Unsigned quantities (uint16_t, uint32_t, size_t) are natural numbers    *)
(* written as little-endian sequences of bytes without leading zero bytes  *)
(* (<<>> is 0, <<44>> is 44, <<0,0,0,0,1>> is 2^32): TLC's own integers    *)
(* stop at 2^31-1, below the range of a uint32_t.  Conversion to a C type  *)
(* of n bytes keeps the n low bytes (U16, U32).                            *)
(***************************************************************************)
EXTENDS Integers, Sequences, FiniteSets

VARIABLES
    argv,         \* argv[1..argc-1] of main: a sequence of 0, 1 or 2 paths
    inKind,       \* what argv[1] names in the file system
    dirFiles,     \* the .qoa entries of argv[1] when it names a directory
    pc,           \* the statement the program is at
    wav_path,     \* main's wav_path buffer (line 111)
    jobs,         \* the calls of convert_qoa_to_wav made so far
    fopens,       \* every fopen call made so far: path, mode, outcome
    sample_data,  \* convert_qoa_to_wav's sample_data: "unset", "NULL", "ptr"
    qoa,          \* the qoa_desc filled by qoa_decode
    hdrArgs,      \* the arguments of the last write_wav_header call
    header,       \* the wav_header_t handed to fwrite (line 44)
    out,          \* the output file: runs of bytes in the order written
    live,         \* buffers and FILE handles currently held
    acquired,     \* how often each was obtained
    released,     \* how often each was freed / closed
    uaf,          \* TRUE once a buffer or handle is touched while not held
    stdout,       \* messages printed with printf
    stderr,       \* messages printed with fprintf(stderr, ...)
    exitCode      \* main's return value, -1 while running

vars == <<argv, inKind, dirFiles, pc, wav_path, jobs, fopens, sample_data, qoa,
          hdrArgs, header, out, live, acquired, released, uaf, stdout, stderr,
          exitCode>>

-----------------------------------------------------------------------------
(* Bounds of the model. *)

MaxPathLen == 3     \* argv[1] has 1..MaxPathLen characters
MaxFrames == 2      \* small decoded frame counts 0..MaxFrames
MaxChannels == 2    \* decoded channel counts 1..MaxChannels
MaxHdrSamples == 3  \* small num_samples arguments 0..MaxHdrSamples

-----------------------------------------------------------------------------
(* Natural numbers beyond TLC's integers. *)

Byte == 256

None == "none"

RECURSIVE Norm(_)
Norm(s) ==
    IF s = <<>> THEN <<>>
    ELSE IF s[Len(s)] = 0 THEN Norm(SubSeq(s, 1, Len(s) - 1)) ELSE s

RECURSIVE FromInt(_)
FromInt(n) == IF n = 0 THEN <<>> ELSE <<n % Byte>> \o FromInt(n \div Byte)

Digit(a, i) == IF i <= Len(a) THEN a[i] ELSE 0

RECURSIVE AddC(_, _, _, _)
AddC(a, b, i, c) ==
    IF i > Len(a) /\ i > Len(b)
    THEN FromInt(c)
    ELSE LET s == Digit(a, i) + Digit(b, i) + c
         IN  <<s % Byte>> \o AddC(a, b, i + 1, s \div Byte)

Add(a, b) == Norm(AddC(a, b, 1, 0))

RECURSIVE MulC(_, _, _, _)
MulC(a, k, i, c) ==
    IF i > Len(a)
    THEN FromInt(c)
    ELSE LET p == a[i] * k + c
         IN  <<p % Byte>> \o MulC(a, k, i + 1, p \div Byte)

ShiftBytes(a, n) == IF a = <<>> THEN <<>> ELSE [j \in 1..n |-> 0] \o a

RECURSIVE MulB(_, _, _)
MulB(a, b, i) ==
    IF i > Len(b)
    THEN <<>>
    ELSE Add(ShiftBytes(Norm(MulC(a, b[i], 1, 0)), i - 1), MulB(a, b, i + 1))

Mul(a, b) == MulB(a, b, 1)

Trunc(a, n) == Norm(SubSeq(a, 1, IF Len(a) < n THEN Len(a) ELSE n))

U16(a) == Trunc(a, 2)
U32(a) == Trunc(a, 4)

Two32 == <<0, 0, 0, 0, 1>>

-----------------------------------------------------------------------------
(* write_wav_header: the wav_header_t it fills (lines 26-45). *)

HeaderBytes == 44   \* sizeof(wav_header_t)

DataSize(num_samples, channels) ==
    U32(Mul(U32(Mul(num_samples, channels)), FromInt(2)))

\* the size of the whole file instead of the size after the 8-byte RIFF header
FileSize_WholeFile(data_size) == U32(Add(data_size, FromInt(HeaderBytes)))

FileSize(data_size) == U32(Add(data_size, FromInt(36)))

write_wav_header(sample_rate, channels, num_samples) ==
    LET data_size == DataSize(num_samples, channels)
    IN  [ riff            |-> "RIFF",
          file_size       |-> FileSize(data_size),
          wave            |-> "WAVE",
          fmt             |-> "fmt ",
          fmt_size        |-> FromInt(16),
          audio_format    |-> FromInt(1),
          num_channels    |-> channels,
          sample_rate     |-> sample_rate,
          byte_rate       |-> U32(Mul(U32(Mul(sample_rate, channels)), FromInt(2))),
          block_align     |-> U16(Mul(channels, FromInt(2))),
          bits_per_sample |-> FromInt(16),
          data            |-> "data",
          data_size       |-> data_size ]

-----------------------------------------------------------------------------
(* Paths: strings over a three-letter alphabet. *)

PathChars == {"t", ".", "/"}

Paths(n) == UNION { [1..k -> PathChars] : k \in 1..n }

DotWav == <<".", "w", "a", "v">>

\* strrchr: the index of the last c in p, 0 when there is none
LastIndex(p, c) ==
    LET I == { i \in 1..Len(p) : p[i] = c }
    IN  IF I = {} THEN 0 ELSE CHOOSE i \in I : \A j \in I : j <= i

\* lines 115-121: strcpy, strrchr, then strcpy over the suffix or strcat
DerivePath(p) ==
    LET ext == LastIndex(p, ".")
    IN  IF ext > 0 THEN SubSeq(p, 1, ext - 1) \o DotWav ELSE p \o DotWav

-----------------------------------------------------------------------------
(* The decoder and the input space. *)

BigFrames == <<255, 255, 255, 127>>    \* 2^31 - 1 frames

Decoded ==
    { [ ok |-> TRUE, samples |-> s, channels |-> FromInt(c),
        samplerate |-> FromInt(44100) ] :
        s \in { FromInt(n) : n \in 0..MaxFrames } \cup {BigFrames},
        c \in 1..MaxChannels }

DecodeFailure == [ok |-> FALSE]

\* qoa_decode (qoa.h): the decoded description, or DecodeFailure for a NULL
\* return.
\* The bytes read from a directory are not defined by the program (fread
\* fails and the malloc'ed buffer keeps whatever it held), so nothing is
\* assumed about what the decoder makes of them.
qoa_decode(kind) ==
    CASE kind = "valid" -> Decoded
      [] kind = "dir"   -> Decoded \cup {DecodeFailure}
      [] OTHER          -> {DecodeFailure}

DirEntries ==
    { [name |-> <<"g">>, kind |-> "valid"], [name |-> <<"b">>, kind |-> "corrupt"] }

OutPaths == { <<"o">> }    \* the explicit output paths tried as argv[2]

Argvs ==
    {<<>>} \cup { <<p>> : p \in Paths(MaxPathLen) }
           \cup { <<p, q>> : p \in Paths(MaxPathLen), q \in OutPaths }

\* a path that can only name a directory: it ends in '/', or its last
\* component is "." or ".."
IsDirName(p) ==
    LET base == SubSeq(p, LastIndex(p, "/") + 1, Len(p))
    IN  base \in {<<>>, <<".">>, <<".", ".">>}

Resources == {"test", "qoa_file", "qoa_data", "sample_data", "wav_file"}

Init ==
    /\ argv \in Argvs
    /\ inKind \in IF argv = <<>> THEN {"missing"}
                  ELSE IF IsDirName(argv[1]) THEN {"missing", "dir"}
                  ELSE {"missing", "empty", "corrupt", "valid", "dir"}
    /\ dirFiles \in IF inKind = "dir" THEN SUBSET DirEntries ELSE {{}}
    /\ pc = "main"
    /\ wav_path = <<>>
    /\ jobs = <<>>
    /\ fopens = <<>>
    /\ sample_data = "unset"
    /\ qoa = None
    /\ hdrArgs = None
    /\ header = None
    /\ out = <<>>
    /\ live = {}
    /\ acquired = [r \in Resources |-> 0]
    /\ released = [r \in Resources |-> 0]
    /\ uaf = FALSE
    /\ stdout = <<>>
    /\ stderr = <<>>
    /\ exitCode = -1

-----------------------------------------------------------------------------
(* Helpers shared by the actions. *)

\* obtain acqs, then touch uses, then free / close rels
ResStep(acqs, uses, rels) ==
    LET held == live \cup acqs
    IN  /\ live' = held \ rels
        /\ acquired' = [r \in Resources |->
                            acquired[r] + IF r \in acqs THEN 1 ELSE 0]
        /\ released' = [r \in Resources |->
                            released[r] + IF r \in rels THEN 1 ELSE 0]
        /\ uaf' = (uaf \/ ~((uses \cup rels) \subseteq held))

Fopen(path, mode, ok) ==
    fopens' = Append(fopens, [path |-> path, mode |-> mode, ok |-> ok])

\* return from main with status code
Exit(code) == pc' = "exit" /\ exitCode' = code

\* fwrite: everything asked for, or (a write error) nothing
Fwrite(part, want, got) ==
    out' = Append(out, [part |-> part, want |-> want, got |-> got])

-----------------------------------------------------------------------------
(* main, lines 94-125. *)

\* lines 95-100
MainNoArgs ==
    /\ pc = "main"
    /\ Len(argv) + 1 < 2
    /\ stdout' = stdout \o <<"banner", "usage_file", "usage_dir">>
    /\ Exit(1)
    /\ UNCHANGED <<argv, inKind, dirFiles, wav_path, jobs, fopens, sample_data,
                   qoa, hdrArgs, header, out, live, acquired, released, uaf,
                   stderr>>

\* lines 103-107: fopen(argv[1], "rb") fails.  Whether a directory can be
\* opened for reading is up to the platform.
MainCannotAccess ==
    /\ pc = "main"
    /\ Len(argv) + 1 >= 2
    /\ inKind \in {"missing", "dir"}
    /\ Fopen(argv[1], "rb", FALSE)
    /\ stderr' = Append(stderr, "cannot_access")
    /\ Exit(1)
    /\ UNCHANGED <<argv, inKind, dirFiles, wav_path, jobs, sample_data, qoa,
                   hdrArgs, header, out, live, acquired, released, uaf, stdout>>

\* lines 103, 108: fopen succeeds, fclose(test)
MainAccessOk ==
    /\ pc = "main"
    /\ Len(argv) + 1 >= 2
    /\ inKind # "missing"
    /\ Fopen(argv[1], "rb", TRUE)
    /\ ResStep({"test"}, {}, {"test"})
    /\ pc' = "derive"
    /\ UNCHANGED <<argv, inKind, dirFiles, wav_path, jobs, sample_data, qoa,
                   hdrArgs, header, out, stdout, stderr, exitCode>>

\* lines 110-124: fill wav_path, call convert_qoa_to_wav(argv[1], wav_path)
MainDerivePath ==
    /\ pc = "derive"
    /\ wav_path' = IF Len(argv) + 1 >= 3 THEN argv[2] ELSE DerivePath(argv[1])
    /\ jobs' = Append(jobs, [qoa_path |-> argv[1], wav_path |-> wav_path'])
    /\ pc' = "convert"
    /\ UNCHANGED <<argv, inKind, dirFiles, fopens, sample_data, qoa, hdrArgs,
                   header, out, live, acquired, released, uaf, stdout, stderr,
                   exitCode>>

-----------------------------------------------------------------------------
(* convert_qoa_to_wav, lines 47-92.  It is called once, as main's return  *)
(* expression, so its return value is the exit status.                    *)

qoa_path == jobs[Len(jobs)].qoa_path

\* lines 48-52: fopen(qoa_path, "rb") fails (the file went away since main
\* tried it, no descriptor is free, a directory)
ConvOpenFail ==
    /\ pc = "convert"
    /\ Fopen(qoa_path, "rb", FALSE)
    /\ stderr' = Append(stderr, "cannot_open_qoa")
    /\ Exit(1)
    /\ UNCHANGED <<argv, inKind, dirFiles, wav_path, jobs, sample_data, qoa,
                   hdrArgs, header, out, live, acquired, released, uaf, stdout>>

\* lines 48, 54-62: fopen, fseek/ftell, malloc, fread, fclose(qoa_file)
ConvRead ==
    /\ pc = "convert"
    /\ Fopen(qoa_path, "rb", TRUE)
    /\ ResStep({"qoa_file", "qoa_data"}, {"qoa_file", "qoa_data"}, {"qoa_file"})
    /\ pc' = "decode"
    /\ UNCHANGED <<argv, inKind, dirFiles, wav_path, jobs, sample_data, qoa,
                   hdrArgs, header, out, stdout, stderr, exitCode>>

\* lines 65-67: qoa_decode, free(qoa_data)
ConvDecode ==
    /\ pc = "decode"
    /\ \E r \in qoa_decode(inKind) :
          /\ qoa' = IF r.ok
                     THEN [ samples |-> r.samples, channels |-> r.channels,
                            samplerate |-> r.samplerate ]
                     ELSE qoa
          /\ sample_data' = IF r.ok THEN "ptr" ELSE "NULL"
          /\ ResStep(IF r.ok THEN {"sample_data"} ELSE {},
                     {"qoa_data"}, {"qoa_data"})
    /\ pc' = "decoded"
    /\ UNCHANGED <<argv, inKind, dirFiles, wav_path, jobs, fopens, hdrArgs,
                   header, out, stdout, stderr, exitCode>>

\* the output opened before the decoder's result is looked at
ConvDecodeFailed_OpensFirst ==
    /\ pc = "decoded"
    /\ sample_data = "NULL"
    /\ Fopen(wav_path, "wb", TRUE)
    /\ stderr' = Append(stderr, "decode_failed")
    /\ Exit(1)
    /\ UNCHANGED <<argv, inKind, dirFiles, wav_path, jobs, sample_data,
                   qoa, hdrArgs, header, out, live, acquired, released, uaf,
                   stdout>>

\* lines 69-72
ConvDecodeFailed ==
    /\ pc = "decoded"
    /\ sample_data = "NULL"
    /\ stderr' = Append(stderr, "decode_failed")
    /\ Exit(1)
    /\ UNCHANGED <<argv, inKind, dirFiles, wav_path, jobs, fopens, sample_data,
                   qoa, hdrArgs, header, out, live, acquired, released, uaf,
                   stdout>>

\* the early return without free(sample_data)
ConvOpenOutFail_Leak ==
    /\ pc = "decoded"
    /\ sample_data = "ptr"
    /\ stdout' = Append(stdout, "decoded")
    /\ Fopen(wav_path, "wb", FALSE)
    /\ stderr' = Append(stderr, "cannot_create_wav")
    /\ Exit(1)
    /\ UNCHANGED <<argv, inKind, dirFiles, wav_path, jobs, sample_data, qoa,
                   hdrArgs, header, out, live, acquired, released, uaf>>

\* lines 74-83: printf, fopen(wav_path, "wb") fails, free(sample_data)
ConvOpenOutFail ==
    /\ pc = "decoded"
    /\ sample_data = "ptr"
    /\ stdout' = Append(stdout, "decoded")
    /\ Fopen(wav_path, "wb", FALSE)
    /\ stderr' = Append(stderr, "cannot_create_wav")
    /\ ResStep({}, {}, {"sample_data"})
    /\ Exit(1)
    /\ UNCHANGED <<argv, inKind, dirFiles, wav_path, jobs, sample_data, qoa,
                   hdrArgs, header, out>>

\* lines 74-78: printf, fopen(wav_path, "wb") creates or truncates the file
ConvOpenOutOk ==
    /\ pc = "decoded"
    /\ sample_data = "ptr"
    /\ stdout' = Append(stdout, "decoded")
    /\ Fopen(wav_path, "wb", TRUE)
    /\ ResStep({"wav_file"}, {}, {})
    /\ out' = <<>>
    /\ pc' = "write_header"
    /\ UNCHANGED <<argv, inKind, dirFiles, wav_path, jobs, sample_data, qoa,
                   hdrArgs, header, stderr, exitCode>>

\* line 85: the arguments as converted to the parameter types
HeaderCallArgs(desc) ==
    [ sample_rate |-> U32(desc.samplerate),
      channels    |-> U16(desc.channels),
      num_samples |-> U32(Mul(desc.samples, desc.channels)) ]

\* lines 26-45 run on args: fill the header, fwrite it (result unused)
WriteHeader(args) ==
    /\ hdrArgs' = args
    /\ header' = write_wav_header(args.sample_rate, args.channels, args.num_samples)
    /\ \E got \in {FromInt(HeaderBytes), <<>>} :
          Fwrite("header", FromInt(HeaderBytes), got)
    /\ ResStep({}, {"wav_file"}, {})

\* line 85
ConvWriteHeader ==
    /\ pc = "write_header"
    /\ WriteHeader(HeaderCallArgs(qoa))
    /\ pc' = "write_samples"
    /\ UNCHANGED <<argv, inKind, dirFiles, wav_path, jobs, fopens, sample_data,
                   qoa, stdout, stderr, exitCode>>

\* line 86: nmemb of the fwrite, an unsigned int product
SampleCount(desc) == U32(Mul(desc.samples, desc.channels))

\* line 86: fwrite(sample_data, sizeof(short), nmemb, wav_file), result unused
ConvWriteSamples ==
    /\ pc = "write_samples"
    /\ LET want == Mul(SampleCount(qoa), FromInt(2))
       IN  \E got \in {want, <<>>} : Fwrite("samples", want, got)
    /\ ResStep({}, {"sample_data", "wav_file"}, {})
    /\ pc' = "close"
    /\ UNCHANGED <<argv, inKind, dirFiles, wav_path, jobs, fopens, sample_data,
                   qoa, hdrArgs, header, stdout, stderr, exitCode>>

\* lines 87-91: fclose(wav_file), free(sample_data), printf, return 0
ConvFinish ==
    /\ pc = "close"
    /\ ResStep({}, {}, {"wav_file", "sample_data"})
    /\ stdout' = Append(stdout, "converted")
    /\ Exit(0)
    /\ UNCHANGED <<argv, inKind, dirFiles, wav_path, jobs, fopens, sample_data,
                   qoa, hdrArgs, header, out, stderr>>

Next ==
    \/ MainNoArgs
    \/ MainCannotAccess
    \/ MainAccessOk
    \/ MainDerivePath
    \/ ConvOpenFail
    \/ ConvRead
    \/ ConvDecode
    \/ ConvDecodeFailed
    \/ ConvOpenOutFail
    \/ ConvOpenOutOk
    \/ ConvWriteHeader
    \/ ConvWriteSamples
    \/ ConvFinish

Spec == Init /\ [][Next]_vars

-----------------------------------------------------------------------------
(* write_wav_header on its own: any arguments, an open fp. *)

AllOnes16 == <<255, 255>>
AllOnes32 == <<255, 255, 255, 255>>

HdrArgSpace ==
    [ sample_rate : {<<>>, FromInt(44100), AllOnes32},
      channels    : { FromInt(c) : c \in 0..MaxChannels } \cup {AllOnes16},
      num_samples : { FromInt(n) : n \in 0..MaxHdrSamples }
                    \cup {BigFrames, <<238, 255, 255, 127>>, AllOnes32} ]

InitHdr ==
    /\ hdrArgs \in HdrArgSpace
    /\ pc = "write_wav_header"
    /\ argv = <<>>
    /\ inKind = "missing"
    /\ dirFiles = {}
    /\ wav_path = <<>>
    /\ jobs = <<>>
    /\ fopens = <<>>
    /\ sample_data = "unset"
    /\ qoa = None
    /\ header = None
    /\ out = <<>>
    /\ live = {"wav_file"}
    /\ acquired = [r \in Resources |-> IF r = "wav_file" THEN 1 ELSE 0]
    /\ released = [r \in Resources |-> 0]
    /\ uaf = FALSE
    /\ stdout = <<>>
    /\ stderr = <<>>
    /\ exitCode = -1

CallWriteWavHeader ==
    /\ pc = "write_wav_header"
    /\ WriteHeader(hdrArgs)
    /\ pc' = "returned"
    /\ UNCHANGED <<argv, inKind, dirFiles, wav_path, jobs, fopens, sample_data,
                   qoa, stdout, stderr, exitCode>>

NextHdr == CallWriteWavHeader

SpecHdr == InitHdr /\ [][NextHdr]_vars

-----------------------------------------------------------------------------
(* Vocabulary of the properties. *)

Succeeded == pc = "exit" /\ exitCode = 0

\* the job is the conversion of a well-formed QOA file
ValidJob == inKind = "valid" /\ jobs # <<>>

\* every fwrite so far transferred all it was asked to
WritesComplete == \A i \in 1..Len(out) : out[i].got = out[i].want

RECURSIVE SumGot(_, _)
SumGot(runs, i) ==
    IF i > Len(runs) THEN <<>> ELSE Add(runs[i].got, SumGot(runs, i + 1))

\* the number of bytes in the output file
EmittedBytes == SumGot(out, 1)

OutputOpened == \E i \in 1..Len(fopens) : fopens[i].mode = "wb"

\* the path with the extension of its last component replaced by ".wav",
\* or with ".wav" appended when the last component has no '.'
ReplaceExtension(p) ==
    LET slash == LastIndex(p, "/")
        dot   == LastIndex(p, ".")
    IN  IF dot > slash THEN SubSeq(p, 1, dot - 1) \o DotWav ELSE p \o DotWav

ConvResources == {"qoa_file", "qoa_data", "sample_data", "wav_file"}

-----------------------------------------------------------------------------
(* Properties. *)

\* C1: after a successful conversion the header's data_size (Subchunk2Size)
\* is frame_count * channel_count * 2, for every channel count.  Stated for
\* well-formed inputs and complete writes, the two sides compared as 32-bit
\* values: the reading kindest to the code.
C1_DataSizeIsFramesChannelsTwo ==
    (ValidJob /\ Succeeded /\ WritesComplete) =>
        header.data_size =
            U32(Mul(Mul(qoa.samples, qoa.channels), FromInt(2)))

\* C2: after a successful conversion the output file holds 44 + data_size
\* bytes, data_size being the header's Subchunk2Size.  Stated for the runs
\* on a well-formed input in which no fwrite fell short, where the claim is
\* at its weakest.
C2_EmittedIsHeaderPlusDataSize ==
    (ValidJob /\ Succeeded /\ WritesComplete) =>
        EmittedBytes = Add(FromInt(HeaderBytes), header.data_size)

\* C3, as claimed: for all arguments of write_wav_header the file_size field
\* (ChunkSize) is the data_size field (Subchunk2Size) plus 36.
C3_FileSizeIsDataSizePlus36 ==
    pc = "returned" => header.file_size = Add(header.data_size, FromInt(36))

\* C3, amended: file_size is (data_size + 36) mod 2^32: data_size + 36 when
\* data_size <= 2^32 - 37 and data_size + 36 - 2^32 otherwise.
C3_FileSizeIsDataSizePlus36Mod2to32 ==
    pc = "returned" =>
        LET sum == Add(header.data_size, FromInt(36))
        IN  /\ Len(header.file_size) <= 4
            /\ IF Len(sum) <= 4
               THEN header.file_size = sum
               ELSE Add(header.file_size, Two32) = sum

\* C3 witness: write_wav_header has returned from a call in which
\* data_size + 36 does not fit 32 bits.
C3_Witness ==
    /\ pc = "returned"
    /\ Len(Add(header.data_size, FromInt(36))) > 4

\* C4: when qoa_decode fails, convert_qoa_to_wav returns 1 and the output
\* path is never opened, so nothing is created or written.
C4_DecodeFailureOpensNoOutput ==
    sample_data = "NULL" =>
        /\ ~OutputOpened
        /\ out = <<>>
        /\ pc \in {"decoded", "exit"}
        /\ pc = "exit" => exitCode = 1

\* C4 witness: the job of an empty or corrupt input has returned.
C4_Witness ==
    /\ pc = "exit"
    /\ sample_data = "NULL"
    /\ inKind \in {"empty", "corrupt"}

\* C5: convert_qoa_to_wav reports failure (non-zero, no success message)
\* whenever the output cannot be created or an fwrite falls short (stated
\* for well-formed inputs).
C5_FailedWriteIsReported ==
    (ValidJob /\ pc = "exit") =>
        ( ( \/ \E i \in 1..Len(fopens) :
                   fopens[i].mode = "wb" /\ ~fopens[i].ok
            \/ ~WritesComplete )
          => ( exitCode # 0 /\ \A i \in 1..Len(stdout) : stdout[i] # "converted" ) )

\* C6: when argv[1] is a directory, by the time main returns a job was run
\* for every .qoa file in it.
C6_EveryDirectoryEntryAttempted ==
    (pc = "exit" /\ inKind = "dir") =>
        \A f \in dirFiles :
            \E i \in 1..Len(jobs) :
                jobs[i].qoa_path = argv[1] \o <<"/">> \o f.name

\* C7: without an explicit output path, the output path is argv[1] with the
\* extension of its file name replaced by ".wav", or with ".wav" appended
\* when the file name has none (stated for inputs that are files).
C7_DerivedPathReplacesExtension ==
    (Len(argv) = 1 /\ jobs # <<>> /\ inKind # "dir") => wav_path = ReplaceExtension(argv[1])

\* C8: called without arguments, or with an input that cannot be opened,
\* main prints the usage text to standard error, returns non-zero and starts
\* no conversion.
C8_UsageOnStderr ==
    (pc = "exit" /\ (Len(argv) = 0 \/ (fopens # <<>> /\ ~fopens[1].ok))) =>
        /\ \E i \in 1..Len(stderr) : stderr[i] \in {"usage_file", "usage_dir"}
        /\ exitCode # 0
        /\ jobs = <<>>
        /\ ~OutputOpened

\* C9: a sample byte reaches the output only after the complete header, and
\* no header byte follows a sample byte (stated for well-formed inputs).
C9_HeaderCompleteBeforeSamples ==
    ValidJob => \A i \in 1..Len(out) :
        (out[i].part = "samples" /\ out[i].got # <<>>) =>
            /\ \E j \in 1..(i - 1) :
                   out[j].part = "header" /\ out[j].got = FromInt(HeaderBytes)
            /\ \A j \in (i + 1)..Len(out) : out[j].part # "header"

\* C10: every buffer and handle of convert_qoa_to_wav is obtained at most
\* once, never touched while not held, never released more often than
\* obtained, and released exactly once by the time the function returns.
C10_ResourcesReleasedOnce ==
    /\ ~uaf
    /\ \A r \in ConvResources :
          /\ acquired[r] <= 1
          /\ released[r] <= acquired[r]
          /\ pc = "exit" => released[r] = acquired[r]
    /\ pc = "exit" => live = {}

\* C10 witness: a job that decoded its input and could not create the output
\* has returned, the decoded buffer released.
C10_Witness ==
    /\ pc = "exit"
    /\ exitCode = 1
    /\ acquired["sample_data"] = 1
    /\ released["sample_data"] = 1
    /\ acquired["wav_file"] = 0

====
